---- MODULE Spec2Model ----
(***************************************************************************)
(* Model of Minecraft::Connection (src/mc/Connection.cpp): the protocol    *)
(* state, the two codec strategies, the pending receive buffer and the     *)
(* poll cycle that turns transport chunks into dispatched packets.         *)
(*                                                                         *)
(* Every operation of the class is one action.  An operation is computed   *)
(* on a record `c` holding the fields of the Connection object; the action *)
(* copies the fields of the resulting record into the variables.           *)
(***************************************************************************)
EXTENDS Integers, Sequences, FiniteSets, TLC

VARIABLES
    m_ProtocolState,   \* Protocol::State of the Connection
    m_Encrypter,       \* the encryption strategy object
    m_Compressor,      \* the compression strategy object
    m_HandleBuffer,    \* pending decrypted bytes, with their read offset
    m_SocketStatus,    \* m_Socket->GetStatus()
    m_Username,        \* credentials stored by Login
    m_Password,
    faulted,           \* an exception left CreatePacket() uncaught
    wire,              \* bytes the server has written and the client not yet read
    srvState,          \* the protocol state the server is in; "Idle" before a connection
    srvEncrypter,      \* the cipher the server applies to what it writes
    srvCompressor,     \* the frame format the server writes
    sent,              \* m_Socket->Send calls of the last step
    events,            \* listener notifications of the last step
    calls,             \* identity-service calls of the last step
    trace,             \* one entry per packet dispatched by the last step
    srvSent,           \* messages the server has written
    lastOp             \* the last step and, for a poll cycle, how its loop ended

vars == <<m_ProtocolState, m_Encrypter, m_Compressor, m_HandleBuffer,
          m_SocketStatus, m_Username, m_Password, faulted, wire, srvState,
          srvEncrypter, srvCompressor, sent, events, calls, trace, lastOp, srvSent>>

----------------------------------------------------------------------------
(* Bounds of the model. *)

\* most bytes in flight from the server to the client
MaxWire == 6
\* most bytes the pending buffer may hold when a chunk is appended
MaxBuf == 6
\* most messages the server writes in a session
MaxMsgs == 3

(* Program constants. *)

\* m_Socket->Receive(buffer, 4096)
RecvMax == 4096
\* HandshakePacket(47, ...)
ProtocolVersion == 47

\* shared secrets a session may negotiate
Keys == {17, 255}
\* thresholds a SetCompression message may carry
Thresholds == {2, 64}
\* the argument byte of every other message
Args == {42}
Users == {"Steve"}
Passwords == {"secret123"}
\* outcomes of one identity-service call: true, false, YggdrasilException
Outcomes == {"true", "false", "throw"}

States == {"Handshake", "Login", "Play"}

EncryptionStrategyNone == [kind |-> "None", key |-> 0]
EncryptionStrategyAES(key) == [kind |-> "AES", key |-> key]
CompressionNone == [kind |-> "None", threshold |-> 0]
CompressionZ(threshold) == [kind |-> "Z", threshold |-> threshold]

----------------------------------------------------------------------------
(* DataBuffer and VarInt. *)

EmptyBuffer == [data |-> <<>>, via |-> <<>>, readOffset |-> 0]

GetSize(buffer) == Len(buffer.data)
GetRemaining(buffer) == Len(buffer.data) - buffer.readOffset
IsFinished(buffer) == buffer.readOffset >= Len(buffer.data)

\* a length no buffer of the model can hold
VarIntHuge == 2 ^ 21

\* 7 data bits per byte, least significant group first, high bit = continuation.
\* ok = FALSE is std::out_of_range: no terminating byte among the bytes present.
RECURSIVE ReadVarIntFrom(_, _, _, _)
ReadVarIntFrom(data, i, shift, value) ==
    IF i > Len(data)
    THEN [ok |-> FALSE, value |-> 0, next |-> 0]
    ELSE LET group == data[i] % 128
             v == IF shift >= 21
                  THEN (IF group = 0 THEN value ELSE VarIntHuge)
                  ELSE value + group * (2 ^ shift)
             w == IF v > VarIntHuge THEN VarIntHuge ELSE v
         IN  IF data[i] >= 128
             THEN ReadVarIntFrom(data, i + 1, shift + 7, w)
             ELSE [ok |-> TRUE, value |-> w, next |-> i]

\* buffer >> varint at read offset `offset`; next is the offset after it
ReadVarInt(data, offset) == ReadVarIntFrom(data, offset + 1, 0, 0)

RECURSIVE EncodeVarInt(_)
EncodeVarInt(n) ==
    IF n < 128 THEN <<n>> ELSE <<128 + (n % 128)>> \o EncodeVarInt(n \div 128)

\* the same number written with one continuation byte more than needed
EncodeVarIntWide(n) == <<128 + (n % 128), n \div 128>>

----------------------------------------------------------------------------
(* Codec strategies. *)

EncryptByte(key, b) == (b + key) % 256
DecryptByte(key, b) == (b + 256 - key) % 256

Encrypt(encrypter, data) ==
    IF encrypter.kind = "None" THEN data
    ELSE [i \in DOMAIN data |-> EncryptByte(encrypter.key, data[i])]

Decrypt(encrypter, data) ==
    IF encrypter.kind = "None" THEN data
    ELSE [i \in DOMAIN data |-> DecryptByte(encrypter.key, data[i])]

Deflate(data) == [i \in DOMAIN data |-> 255 - data[i]]
Inflate(data) == [i \in DOMAIN data |-> 255 - data[i]]

\* the frame of one serialized packet: length, then the body
Compress(compressor, data) ==
    IF compressor.kind = "None"
    THEN EncodeVarInt(Len(data)) \o data
    ELSE LET body == IF Len(data) < compressor.threshold
                     THEN <<0>> \o data
                     ELSE EncodeVarInt(Len(data)) \o Deflate(data)
         IN  EncodeVarInt(Len(body)) \o body

\* reads the `length` wire bytes of one frame starting at read offset `offset`
Decompress(compressor, data, offset, length) ==
    IF compressor.kind = "None"
    THEN [ok |-> TRUE, data |-> SubSeq(data, offset + 1, offset + length),
          next |-> offset + length]
    ELSE LET dataLength == ReadVarInt(data, offset)
         IN  IF ~dataLength.ok \/ dataLength.next - offset > length
             THEN [ok |-> FALSE, data |-> <<>>, next |-> offset]
             ELSE LET body == SubSeq(data, dataLength.next + 1, offset + length)
                  IN  [ok |-> TRUE,
                       data |-> IF dataLength.value = 0 THEN body ELSE Inflate(body),
                       next |-> offset + length]

----------------------------------------------------------------------------
(* Packets: identifiers, decoding and serialization. *)

\* the packet a (state, identifier) pair names; "Unknown" has no decoder
InboundKind(state, id) ==
    IF state = "Login" THEN
        CASE id = 0 -> "Disconnect"
          [] id = 1 -> "EncryptionRequest"
          [] id = 2 -> "LoginSuccess"
          [] id = 3 -> "SetCompression"
          [] OTHER -> "Unknown"
    ELSE IF state = "Play" THEN
        CASE id = 0 -> "KeepAlive"
          [] id = 2 -> "ChatMessage"
          [] id = 8 -> "PlayerPositionAndLook"
          [] id = 64 -> "Disconnect"
          [] id = 70 -> "SetCompression"
          [] OTHER -> "Unknown"
    ELSE "Unknown"

\* the identifier the server writes for a packet of its state
InboundId(state, kind) ==
    IF state = "Login" THEN
        CASE kind = "Disconnect" -> 0
          [] kind = "EncryptionRequest" -> 1
          [] kind = "LoginSuccess" -> 2
          [] kind = "SetCompression" -> 3
    ELSE
        CASE kind = "KeepAlive" -> 0
          [] kind = "ChatMessage" -> 2
          [] kind = "PlayerPositionAndLook" -> 8
          [] kind = "Disconnect" -> 64
          [] kind = "SetCompression" -> 70

OutboundId(kind) ==
    CASE kind = "Handshake" -> 0
      [] kind = "LoginStart" -> 0
      [] kind = "EncryptionResponse" -> 1
      [] kind = "KeepAlive" -> 0
      [] kind = "ChatMessage" -> 1
      [] kind = "PlayerPositionAndLook" -> 6
      [] kind = "ClientStatus" -> 22

\* the one field byte a packet carries on the wire
FieldByte(kind, arg) == IF kind = "LoginStart" THEN 83 ELSE arg

\* packet->Serialize(): identifier, then the field
Serialize(packet) == <<OutboundId(packet.kind), FieldByte(packet.kind, packet.arg)>>

\* PacketFactory::CreatePacket(state, data, length).  res is
\*   "packet"     a packet was decoded
\*   "null"       nullptr: there is nothing to decode
\*   "unfinished" UnfinishedProtocolException: no decoder for (state, id)
\*   "fault"      std::out_of_range while reading the identifier or the field
PacketFactory_CreatePacket(state, data, length) ==
    IF Len(data) = 0 THEN [res |-> "null", packet |-> <<>>]
    ELSE LET id == ReadVarInt(data, 0)
         IN  IF ~id.ok THEN [res |-> "fault", packet |-> <<>>]
             ELSE IF InboundKind(state, id.value) = "Unknown"
             THEN [res |-> "unfinished", packet |-> <<>>]
             ELSE IF Len(data) <= id.next THEN [res |-> "fault", packet |-> <<>>]
             ELSE [res |-> "packet",
                   packet |-> [kind |-> InboundKind(state, id.value),
                               state |-> state,
                               arg |-> data[id.next + 1]]]

----------------------------------------------------------------------------
(* The Connection object as a record, and its operations. *)

\* the handlers the constructor registers with the dispatcher
Registered ==
    { <<"Login", "Disconnect">>, <<"Login", "EncryptionRequest">>,
      <<"Login", "LoginSuccess">>, <<"Login", "SetCompression">>,
      <<"Play", "KeepAlive">>, <<"Play", "PlayerPositionAndLook">>,
      <<"Play", "Disconnect">> }

\* the state the protocol starts in
InitialProtocolState == "Handshake"

\* the object after construction, with empty logs
NewConnection ==
    [state |-> InitialProtocolState,
     enc |-> EncryptionStrategyNone,
     comp |-> CompressionNone,
     buf |-> EmptyBuffer,
     status |-> "Disconnected",
     user |-> "",
     pass |-> "",
     fault |-> FALSE,
     out |-> <<>>, ev |-> <<>>, calls |-> <<>>, tr |-> <<>>, fr |-> <<>>]

ClearLogs(c) ==
    [c EXCEPT !.out = <<>>, !.ev = <<>>, !.calls = <<>>, !.tr = <<>>, !.fr = <<>>]

NotifyListeners(c, event) == [c EXCEPT !.ev = Append(@, event)]

OnSocketStateChange(status) == [type |-> "OnSocketStateChange", status |-> status]
OnLogin(ok) == [type |-> "OnLogin", success |-> ok]
OnAuthentication(ok, msg) == [type |-> "OnAuthentication", success |-> ok, message |-> msg]

\* serialize -> compress -> encrypt -> m_Socket->Send
SendPacket(c, packet) ==
    LET packetBuffer == Serialize(packet)
        compressed == Compress(c.comp, packetBuffer)
        encrypted == Encrypt(c.enc, compressed)
    IN  [c EXCEPT !.out = Append(@, [packet |-> packet,
                                      data |-> encrypted,
                                      comp |-> c.comp,
                                      enc |-> c.enc,
                                      status |-> c.status])]

\* a handler that answers with an identifier of its own
HandlePacket_KeepAlive_OwnId(c, packet) ==
    SendPacket(c, [kind |-> "KeepAlive", arg |-> 0])

HandlePacket_KeepAlive(c, packet) ==
    SendPacket(c, [kind |-> "KeepAlive", arg |-> packet.arg])

HandlePacket_PlayerPositionAndLook(c, packet) ==
    LET c1 == SendPacket(c, [kind |-> "PlayerPositionAndLook", arg |-> packet.arg])
    IN  SendPacket(c1, [kind |-> "ClientStatus", arg |-> 0])

HandlePacket_Disconnect(c, packet) ==
    LET c1 == [c EXCEPT !.status = "Disconnected"]
        c2 == NotifyListeners(c1, OnSocketStateChange(c1.status))
    IN  IF c2.state # "Play" THEN NotifyListeners(c2, OnLogin(FALSE)) ELSE c2

\* e.what() of a YggdrasilException
YggdrasilWhat == "Yggdrasil request failed"

\* an AuthenticateClient whose second step overwrites the verdict of the first
AuthenticateClient_VerdictOverwritten(c, sharedSecret, ygg) ==
    LET c1 == [c EXCEPT !.calls = @ \o
                 << [op |-> "Authenticate", user |-> c.user, pass |-> c.pass,
                     result |-> ygg.auth],
                    [op |-> "JoinServer", user |-> "", pass |-> "",
                     result |-> ygg.join] >>]
    IN  NotifyListeners(c1, OnAuthentication(ygg.join = "true",
            IF ygg.join = "true" THEN "" ELSE "Failed to join server through Yggdrasil."))

\* ygg = [auth, join]: what the identity service answers to the two calls
AuthenticateClient(c, sharedSecret, ygg) ==
    LET error1 == CASE ygg.auth = "true" -> ""
                    [] ygg.auth = "false" -> "Failed to authenticate"
                    [] ygg.auth = "throw" -> YggdrasilWhat
        success1 == ygg.auth = "true"
        error2 == CASE ygg.join = "true" -> error1
                    [] ygg.join = "false" -> "Failed to join server through Yggdrasil."
                    [] ygg.join = "throw" -> YggdrasilWhat
        success2 == success1 /\ ygg.join = "true"
        c1 == [c EXCEPT !.calls = @ \o
                 << [op |-> "Authenticate", user |-> c.user, pass |-> c.pass,
                     result |-> ygg.auth],
                    [op |-> "JoinServer", user |-> "", pass |-> "",
                     result |-> ygg.join] >>]
    IN  NotifyListeners(c1, OnAuthentication(success2, error2))

\* a handler that gives up, before the response is sent, when authentication failed
HandlePacket_EncryptionRequest_AbortOnFailure(c, packet, ygg) ==
    LET c1 == AuthenticateClient(c, packet.arg, ygg)
    IN  IF ygg.auth = "true" /\ ygg.join = "true"
        THEN [SendPacket(c1, [kind |-> "EncryptionResponse", arg |-> packet.arg])
                 EXCEPT !.enc = EncryptionStrategyAES(packet.arg)]
        ELSE c1

HandlePacket_EncryptionRequest(c, packet, ygg) ==
    LET aesEncrypter == EncryptionStrategyAES(packet.arg)
        encResp == [kind |-> "EncryptionResponse", arg |-> packet.arg]
        c1 == AuthenticateClient(c, packet.arg, ygg)
        c2 == SendPacket(c1, encResp)
    IN  [c2 EXCEPT !.enc = aesEncrypter]

HandlePacket_LoginSuccess(c, packet) ==
    NotifyListeners([c EXCEPT !.state = "Play"], OnLogin(TRUE))

HandlePacket_SetCompression(c, packet) ==
    [c EXCEPT !.comp = CompressionZ(packet.arg)]

HandlePacket(c, packet, ygg) ==
    CASE packet.kind = "KeepAlive" -> HandlePacket_KeepAlive(c, packet)
      [] packet.kind = "PlayerPositionAndLook" -> HandlePacket_PlayerPositionAndLook(c, packet)
      [] packet.kind = "Disconnect" -> HandlePacket_Disconnect(c, packet)
      [] packet.kind = "EncryptionRequest" -> HandlePacket_EncryptionRequest(c, packet, ygg)
      [] packet.kind = "LoginSuccess" -> HandlePacket_LoginSuccess(c, packet)
      [] packet.kind = "SetCompression" -> HandlePacket_SetCompression(c, packet)

Drop(s, n) == SubSeq(s, n + 1, Len(s))

\* what the dispatch of one packet did: c is the Connection before it, c1 after
Dispatched(c, c1, packet, frame) ==
    [packet |-> packet,
     handled |-> <<packet.state, packet.kind>> \in Registered,
     frame |-> frame,
     before |-> [state |-> c.state, enc |-> c.enc, comp |-> c.comp,
                 status |-> c.status,
                 rest |-> Drop(c.buf.data, c.buf.readOffset)],
     after |-> [state |-> c1.state, enc |-> c1.enc, comp |-> c1.comp,
                status |-> c1.status,
                rest |-> Drop(c1.buf.data, c1.buf.readOffset)],
     out |-> Drop(c1.out, Len(c.out)),
     ev |-> Drop(c1.ev, Len(c.ev)),
     calls |-> Drop(c1.calls, Len(c.calls))]

Logged(c, c1, packet, frame) ==
    [c1 EXCEPT !.tr = Append(@, Dispatched(c, c1, packet, frame))]

\* GetDispatcher()->Dispatch(packet): the Connection's handler runs when one
\* is registered for the packet's (state, identifier).  `frame` describes the
\* wire bytes the packet was parsed from.
Dispatch(c, packet, frame, ygg) ==
    Logged(c,
           IF <<packet.state, packet.kind>> \in Registered
           THEN HandlePacket(c, packet, ygg) ELSE c,
           packet, frame)

----------------------------------------------------------------------------
(* Frame assembly: CreatePacket(DataBuffer&) and the poll cycle CreatePacket(). *)

\* a CreatePacket(DataBuffer&) that forgets to restore the read offset
RewindReadOffset_Forgotten(c, readOffset) == c

\* buffer.SetReadOffset(readOffset): the length varint read is undone
RewindReadOffset(c, readOffset) == [c EXCEPT !.buf.readOffset = readOffset]

NoFrame == [start |-> 0, length |-> 0, payload |-> <<>>, via |-> {}]

\* the nullptr results of CreatePacket(DataBuffer&) and the exception of
\* Decompress; why tells what stopped the frame
NoPacket(res, why, c) ==
    [res |-> res, why |-> why, c |-> c, packet |-> <<>>, frame |-> NoFrame]

\* PacketFactory::CreatePacket on the decompressed frame and the return
CreatePacket_Made(c, made, frame) ==
    [res |-> made.res, why |-> "factory", c |-> c,
     packet |-> made.packet, frame |-> frame]

\* the frame is complete: Decompress, then the factory
CreatePacket_Decompressed(c, readOffset, length, decompressed) ==
    IF ~decompressed.ok
    THEN NoPacket("fault", "decompress", [c EXCEPT !.buf.readOffset = length.next])
    ELSE CreatePacket_Made(
             [c EXCEPT !.buf.readOffset = decompressed.next,
                       !.fr = Append(@, [start |-> readOffset,
                                         length |-> length.value])],
             PacketFactory_CreatePacket(c.state, decompressed.data, length.value),
             [start |-> readOffset,
              length |-> length.value,
              payload |-> decompressed.data,
              via |-> {c.buf.via[i] : i \in (readOffset + 1)..decompressed.next}])

\* the length varint was read (or not): length = [ok, value, next]
CreatePacket_Length(c, readOffset, length) ==
    IF ~length.ok
    THEN NoPacket("null", "varint", c)
    ELSE IF GetRemaining([c.buf EXCEPT !.readOffset = length.next]) < length.value
    THEN NoPacket("null", "body",
                  RewindReadOffset([c EXCEPT !.buf.readOffset = length.next],
                                   readOffset))
    ELSE CreatePacket_Decompressed(c, readOffset, length,
             Decompress(c.comp, c.buf.data, length.next, length.value))

\* One frame from m_HandleBuffer.  res is "packet", "unfinished", "fault"
\* (as PacketFactory_CreatePacket) or "null" (nullptr); why tells what stopped it:
\* "varint" the length has no terminating byte, "body" the declared length
\* exceeds the bytes remaining, "decompress" or "factory".
CreatePacket_Buffer(c) ==
    CreatePacket_Length(c, c.buf.readOffset,
                        ReadVarInt(c.buf.data, c.buf.readOffset))

\* while (!m_HandleBuffer.IsFinished() && m_HandleBuffer.GetSize() > 0)
LoopCondition(c) == ~IsFinished(c.buf) /\ GetSize(c.buf) > 0

RECURSIVE ParseLoop(_, _)

\* the loop's condition after an iteration that began at read offset start
LoopWhile(c, start, ygg) ==
    IF LoopCondition(c) THEN ParseLoop(c, ygg)
    ELSE [c |-> c, stop |-> "finished", start |-> start]

\* a loop that an UnfinishedProtocolException leaves instead of continuing
LoopBody_StopOnUnfinished(r, start, ygg) ==
    CASE r.res = "packet" ->
           LoopWhile(Dispatch(r.c, r.packet, r.frame, ygg), start, ygg)
      [] r.res = "null" ->
           [c |-> r.c, stop |-> r.why, start |-> start]
      [] r.res = "unfinished" ->
           [c |-> r.c, stop |-> "unfinished", start |-> start]
      [] r.res = "fault" ->
           [c |-> [r.c EXCEPT !.fault = TRUE], stop |-> "fault", start |-> start]

\* the body of the loop on the result r of CreatePacket(m_HandleBuffer)
LoopBody(r, start, ygg) ==
    CASE r.res = "packet" ->
           LoopWhile(Dispatch(r.c, r.packet, r.frame, ygg), start, ygg)
      [] r.res = "null" ->
           [c |-> r.c, stop |-> r.why, start |-> start]
      [] r.res = "unfinished" ->
           LoopWhile(r.c, start, ygg)
      [] r.res = "fault" ->
           [c |-> [r.c EXCEPT !.fault = TRUE], stop |-> "fault", start |-> start]

\* the do-while loop of CreatePacket(); stop tells how it ended, start is the
\* read offset at which its last iteration began, and c.buf.readOffset the
\* read offset it left
ParseLoop(c, ygg) ==
    LoopBody(CreatePacket_Buffer(c), c.buf.readOffset, ygg)

\* the buffer replacement that ends a poll cycle
Compact(c) ==
    IF IsFinished(c.buf) THEN [c EXCEPT !.buf = EmptyBuffer]
    ELSE IF c.buf.readOffset # 0
    THEN [c EXCEPT !.buf = [data |-> Drop(c.buf.data, c.buf.readOffset),
                            via |-> Drop(c.buf.via, c.buf.readOffset),
                            readOffset |-> 0]]
    ELSE c

\* m_HandleBuffer << m_Encrypter->Decrypt(buffer)
AppendDecrypted(c, chunk) ==
    [c EXCEPT !.buf.data = @ \o Decrypt(c.enc, chunk),
              !.buf.via = @ \o [i \in DOMAIN chunk |-> c.enc]]

\* the end of a poll cycle whose loop ended as r
EndCycle(r) ==
    [c |-> IF r.stop = "fault" THEN r.c ELSE Compact(r.c),
     stop |-> r.stop, start |-> r.start, offset |-> r.c.buf.readOffset]

\* a status check that returns without telling the listeners
StatusReturn_Silent(c) ==
    [c |-> c, stop |-> "status", start |-> 0, offset |-> 0]

\* the socket is not connected: notify and return
StatusReturn(c) ==
    [c |-> NotifyListeners(c, OnSocketStateChange(c.status)),
     stop |-> "status", start |-> 0, offset |-> 0]

\* CreatePacket(): one poll cycle on the chunk that Receive delivered
CreatePacket(c, chunk, ygg) ==
    IF c.status # "Connected"
    THEN StatusReturn(c)
    ELSE IF Len(chunk) = 0
    THEN [c |-> c, stop |-> "empty", start |-> 0, offset |-> 0]
    ELSE EndCycle(ParseLoop(AppendDecrypted(c, chunk), ygg))

\* a Login that sends both messages but does not keep the credentials
Login_CredentialsNotStored(c, username, password) ==
    LET c1 == SendPacket(c, [kind |-> "Handshake", arg |-> ProtocolVersion])
        c2 == SendPacket(c1, [kind |-> "LoginStart", arg |-> username])
    IN  [c2 EXCEPT !.state = "Login"]

\* Login(username, password)
Login(c, username, password) ==
    LET c1 == SendPacket(c, [kind |-> "Handshake", arg |-> ProtocolVersion])
        c2 == SendPacket(c1, [kind |-> "LoginStart", arg |-> username])
    IN  [c2 EXCEPT !.user = username, !.pass = password, !.state = "Login"]

\* the candidates tried: up to and including the first that connects
RECURSIVE Attempts(_)
Attempts(addrs) ==
    IF addrs = <<>> THEN <<>>
    ELSE IF Head(addrs) THEN <<TRUE>>
    ELSE <<FALSE>> \o Attempts(Tail(addrs))

\* a Connect that gives up after the first candidate address
Connect_FirstAddressOnly(c, numeric, addrs) ==
    LET tried == IF addrs = <<>> THEN <<>> ELSE <<Head(addrs)>>
        result == tried # <<>> /\ tried[Len(tried)]
        c1 == IF result THEN [c EXCEPT !.status = "Connected"] ELSE c
        c2 == IF result THEN NotifyListeners(c1, OnSocketStateChange(c1.status)) ELSE c1
    IN  [c |-> c2, result |-> result, tried |-> tried,
         numeric |-> numeric, addrs |-> addrs]

\* Connect(server, port): numeric tells whether the host is a literal address,
\* addrs[i] whether m_Socket->Connect succeeds on the i-th candidate address
Connect(c, numeric, addrs) ==
    LET tried == IF numeric THEN <<Head(addrs)>> ELSE Attempts(addrs)
        result == tried # <<>> /\ tried[Len(tried)]
        c1 == IF result THEN [c EXCEPT !.status = "Connected"] ELSE c
        c2 == IF result THEN NotifyListeners(c1, OnSocketStateChange(c1.status)) ELSE c1
    IN  [c |-> c2, result |-> result, tried |-> tried,
         numeric |-> numeric, addrs |-> addrs]

----------------------------------------------------------------------------
(* The server and the transport. *)

\* the frame the server writes for a payload; wide pads the length varint
ServerFrame(compressor, data, wide) ==
    IF ~wide THEN Compress(compressor, data)
    ELSE LET body == IF compressor.kind = "None" THEN data
                     ELSE IF Len(data) < compressor.threshold THEN <<0>> \o data
                     ELSE EncodeVarInt(Len(data)) \o Deflate(data)
         IN  EncodeVarIntWide(Len(body)) \o body

\* the messages a server in state `state` may send; "Empty" is a frame with
\* no payload
ServerMessages(state) ==
    IF state = "Login"
    THEN {[kind |-> "Disconnect", arg |-> a] : a \in Args}
         \cup {[kind |-> "EncryptionRequest", arg |-> k] : k \in Keys}
         \cup {[kind |-> "LoginSuccess", arg |-> a] : a \in Args}
         \cup {[kind |-> "SetCompression", arg |-> t] : t \in Thresholds}
         \cup {[kind |-> "Empty", arg |-> 0]}
    ELSE {[kind |-> "KeepAlive", arg |-> a] : a \in Args}
         \cup {[kind |-> "ChatMessage", arg |-> a] : a \in Args}
         \cup {[kind |-> "PlayerPositionAndLook", arg |-> a] : a \in Args}
         \cup {[kind |-> "Disconnect", arg |-> a] : a \in Args}
         \cup {[kind |-> "SetCompression", arg |-> t] : t \in Thresholds}
         \cup {[kind |-> "Empty", arg |-> 0]}

\* the messages whose length the server may write padded
WideKinds == {"KeepAlive", "LoginSuccess"}
WideChoices(msg) == IF msg.kind \in WideKinds THEN BOOLEAN ELSE {FALSE}

\* the serialized message: identifier, then the field; nothing for "Empty"
ServerPayload(msg) ==
    IF msg.kind = "Empty" THEN <<>> ELSE <<InboundId(srvState, msg.kind), msg.arg>>

ServerBytes(msg, wide) ==
    Encrypt(srvEncrypter, ServerFrame(srvCompressor, ServerPayload(msg), wide))

----------------------------------------------------------------------------
(* State, initial state and actions. *)

Conn ==
    [state |-> m_ProtocolState, enc |-> m_Encrypter, comp |-> m_Compressor,
     buf |-> m_HandleBuffer, status |-> m_SocketStatus,
     user |-> m_Username, pass |-> m_Password, fault |-> faulted,
     out |-> <<>>, ev |-> <<>>, calls |-> <<>>, tr |-> <<>>, fr |-> <<>>]

SetConn(c) ==
    /\ m_ProtocolState' = c.state
    /\ m_Encrypter' = c.enc
    /\ m_Compressor' = c.comp
    /\ m_HandleBuffer' = c.buf
    /\ m_SocketStatus' = c.status
    /\ m_Username' = c.user
    /\ m_Password' = c.pass
    /\ faulted' = c.fault
    /\ sent' = c.out
    /\ events' = c.ev
    /\ calls' = c.calls
    /\ trace' = c.tr

\* what the last step was: op names it; of a poll cycle, rx is the decrypted
\* chunk, pending the buffer it was appended to, frames the frames taken from
\* the buffer, stop/start/offset the way the loop ended; of Connect, ret is
\* the value returned, numeric and addrs its inputs and tried the outcomes of
\* the connection attempts
Op(name, rx, pending, r, frames, conn) ==
    [op |-> name, rx |-> rx, pending |-> pending,
     stop |-> r.stop, start |-> r.start, offset |-> r.offset, frames |-> frames,
     ret |-> conn.result, numeric |-> conn.numeric, addrs |-> conn.addrs,
     tried |-> conn.tried]

NoLoop == [stop |-> "", start |-> 0, offset |-> 0]
NoConnect == [result |-> FALSE, numeric |-> FALSE, addrs |-> <<>>, tried |-> <<>>]

Init ==
    /\ m_ProtocolState = NewConnection.state
    /\ m_Encrypter = NewConnection.enc
    /\ m_Compressor = NewConnection.comp
    /\ m_HandleBuffer = NewConnection.buf
    /\ m_SocketStatus = NewConnection.status
    /\ m_Username = NewConnection.user
    /\ m_Password = NewConnection.pass
    /\ faulted = NewConnection.fault
    /\ sent = <<>>
    /\ events = <<>>
    /\ calls = <<>>
    /\ trace = <<>>
    /\ wire = <<>>
    /\ srvState = "Idle"
    /\ srvEncrypter = EncryptionStrategyNone
    /\ srvCompressor = CompressionNone
    /\ srvSent = 0
    /\ lastOp = Op("new", <<>>, <<>>, NoLoop, <<>>, NoConnect)

\* the answers of the identity service that a poll cycle can tell apart: all
\* of them when the cycle calls the service, one when it does not
YggAnswers == [auth : Outcomes, join : Outcomes]
YggChoices(c, chunk) ==
    IF CreatePacket(c, chunk, [auth |-> "true", join |-> "true"]).c.calls = <<>>
    THEN {[auth |-> "true", join |-> "true"]}
    ELSE YggAnswers

Min(a, b) == IF a < b THEN a ELSE b

\* candidate address lists name resolution may return
AddrLists == {<<>>} \cup {<<a>> : a \in BOOLEAN}
             \cup {<<a, b>> : a \in BOOLEAN, b \in BOOLEAN}

\* the state after Connect returned r
Connected(r) ==
    /\ SetConn(r.c)
    /\ lastOp' = Op("connect", <<>>, m_HandleBuffer.data, NoLoop, <<>>, r)
    /\ srvState' = IF r.result THEN "Login" ELSE srvState

\* the user calls Connect on a Connection that has not been connected yet (a
\* session is not resumed: a new Connection object is made to connect again);
\* the server session starts when the transport connects
DoConnect ==
    /\ ~faulted
    /\ srvState = "Idle"
    /\ \E numeric \in BOOLEAN, addrs \in AddrLists :
          /\ numeric => Len(addrs) = 1
          /\ Connected(Connect(Conn, numeric, addrs))
    /\ UNCHANGED <<wire, srvEncrypter, srvCompressor, srvSent>>

\* the user calls Login
DoLogin ==
    /\ ~faulted
    /\ \E username \in Users, password \in Passwords :
          /\ SetConn(Login(Conn, username, password))
          /\ lastOp' = Op("login", <<>>, m_HandleBuffer.data, NoLoop, <<>>, NoConnect)
    /\ UNCHANGED <<wire, srvState, srvEncrypter, srvCompressor, srvSent>>

\* the user sends a message of their own
DoSendPacket ==
    /\ ~faulted
    /\ \E a \in Args :
          /\ SetConn(SendPacket(Conn, [kind |-> "ChatMessage", arg |-> a]))
          /\ lastOp' = Op("send", <<>>, m_HandleBuffer.data, NoLoop, <<>>, NoConnect)
    /\ UNCHANGED <<wire, srvState, srvEncrypter, srvCompressor, srvSent>>

\* the state after a poll cycle that received chunk and ended as r
Polled(chunk, r) ==
    /\ SetConn(r.c)
    /\ wire' = Drop(wire, Len(chunk))
    /\ lastOp' = Op("poll", Decrypt(m_Encrypter, chunk), m_HandleBuffer.data,
                    r, r.c.fr, NoConnect)

\* the driving loop calls CreatePacket(); the transport delivers the first n
\* bytes in flight (none when the socket is not connected)
Poll ==
    /\ ~faulted
    /\ \E n \in 0..Min(Len(wire), RecvMax) :
          /\ m_SocketStatus # "Connected" => n = 0
          /\ Len(m_HandleBuffer.data) + n <= MaxBuf
          /\ \E ygg \in YggChoices(Conn, SubSeq(wire, 1, n)) :
                Polled(SubSeq(wire, 1, n), CreatePacket(Conn, SubSeq(wire, 1, n), ygg))
    /\ UNCHANGED <<srvState, srvEncrypter, srvCompressor, srvSent>>

\* the server writes one message, then switches its own codec or state as the
\* message announces
ServerSend ==
    /\ ~faulted
    /\ m_SocketStatus = "Connected"
    /\ \E msg \in ServerMessages(srvState) : \E wide \in WideChoices(msg) :
          /\ Len(wire) + Len(ServerBytes(msg, wide)) <= MaxWire
          /\ srvSent < MaxMsgs
          /\ srvSent' = srvSent + 1
          /\ wire' = wire \o ServerBytes(msg, wide)
          /\ srvEncrypter' = IF msg.kind = "EncryptionRequest"
                             THEN EncryptionStrategyAES(msg.arg) ELSE srvEncrypter
          /\ srvCompressor' = IF msg.kind = "SetCompression"
                              THEN CompressionZ(msg.arg) ELSE srvCompressor
          /\ srvState' = IF msg.kind = "LoginSuccess" THEN "Play" ELSE srvState
    /\ sent' = <<>> /\ events' = <<>> /\ calls' = <<>> /\ trace' = <<>>
    /\ lastOp' = Op("server", <<>>, m_HandleBuffer.data, NoLoop, <<>>, NoConnect)
    /\ UNCHANGED <<m_ProtocolState, m_Encrypter, m_Compressor, m_HandleBuffer,
                   m_SocketStatus, m_Username, m_Password, faulted>>

\* the transport fails or the peer closes it
TransportClose ==
    /\ ~faulted
    /\ m_SocketStatus = "Connected"
    /\ wire = <<>>
    /\ m_SocketStatus' = "Disconnected"
    /\ sent' = <<>> /\ events' = <<>> /\ calls' = <<>> /\ trace' = <<>>
    /\ lastOp' = Op("close", <<>>, m_HandleBuffer.data, NoLoop, <<>>, NoConnect)
    /\ UNCHANGED <<m_ProtocolState, m_Encrypter, m_Compressor, m_HandleBuffer,
                   m_Username, m_Password, faulted, wire, srvState,
                   srvEncrypter, srvCompressor, srvSent>>

Next ==
    \/ DoConnect
    \/ DoLogin
    \/ DoSendPacket
    \/ Poll
    \/ ServerSend
    \/ TransportClose

Spec == Init /\ [][Next]_vars

----------------------------------------------------------------------------
(* Properties. *)

Packets(c) == [i \in DOMAIN c.tr |-> c.tr[i].packet]

\* the entries of the last step's trace in which the Connection's handler for
\* packets of kind `kind` ran
Handled(kind) ==
    {i \in DOMAIN trace : trace[i].handled /\ trace[i].packet.kind = kind}

OfType(evs, type) == SelectSeq(evs, LAMBDA e : e.type = type)
OfKind(outs, kind) == SelectSeq(outs, LAMBDA o : o.packet.kind = kind)

\* C1: chunk independence of poll().  Whatever bytes are in flight, delivering
\* them in two successive poll cycles (cut at any place) dispatches the same
\* packets, in the same order, as delivering them in one cycle.  It is stated
\* for the deliveries that leave the socket connected.
C1_ChunkIndependence ==
    (~faulted /\ m_SocketStatus = "Connected"
        /\ Len(m_HandleBuffer.data) + Len(wire) <= MaxBuf) =>
    \A k \in 1..(Len(wire) - 1) : \A ygg \in YggChoices(Conn, wire) :
        LET whole == CreatePacket(Conn, wire, ygg).c
            first == CreatePacket(Conn, SubSeq(wire, 1, k), ygg).c
            second == IF first.fault THEN ClearLogs(first)
                      ELSE CreatePacket(ClearLogs(first), Drop(wire, k), ygg).c
        IN  (whole.status = "Connected" /\ second.status = "Connected")
               => Packets(first) \o Packets(second) = Packets(whole)

\* C2: insufficient data never consumes bytes.  When a poll cycle stops because
\* the length varint has no terminating byte, or because the declared length
\* exceeds the bytes that follow it, the read offset is the one at which that
\* frame began and the buffer keeps every byte from there on; a frame whose
\* two-byte length varint is cut after its first byte yields no frame after
\* the first chunk and exactly one frame, of the declared length, after the
\* second.
C2_InsufficientDataKeepsBytes ==
    lastOp.op = "poll" =>
    LET all == lastOp.pending \o lastOp.rx
    IN  /\ lastOp.stop \in {"varint", "body"} =>
            /\ lastOp.offset = lastOp.start
            /\ m_HandleBuffer.readOffset = 0
            /\ m_HandleBuffer.data = Drop(all, lastOp.start)
            /\ m_HandleBuffer.data # <<>>
            /\ Len(trace) <= Len(lastOp.frames)
        /\ (lastOp.pending = <<>> /\ Len(lastOp.rx) = 1 /\ lastOp.rx[1] >= 128) =>
            /\ lastOp.stop = "varint"
            /\ lastOp.frames = <<>>
            /\ trace = <<>>
            /\ m_HandleBuffer.data = lastOp.rx
        /\ (/\ Len(lastOp.pending) = 1 /\ lastOp.pending[1] >= 128
            /\ Len(lastOp.rx) >= 1 /\ lastOp.rx[1] < 128
            /\ Len(lastOp.rx) - 1 = (lastOp.pending[1] - 128) + 128 * lastOp.rx[1]
            /\ lastOp.stop # "fault") =>
            /\ lastOp.frames = <<[start |-> 0, length |-> Len(lastOp.rx) - 1]>>
            /\ m_HandleBuffer.data = <<>>

\* a poll cycle completed a frame whose length varint had been cut in two, and
\* dispatched the packet
C2_Witness ==
    /\ lastOp.op = "poll"
    /\ Len(lastOp.pending) = 1 /\ lastOp.pending[1] >= 128
    /\ Len(lastOp.frames) = 1 /\ lastOp.frames[1].length = Len(lastOp.rx) - 1
    /\ Len(trace) = 1

\* C3: a message received after an EncryptionRequest is handled is decrypted
\* under the new key.  Once the cipher is active, every frame parsed was built
\* from bytes that went through that cipher, and so was every byte still
\* waiting in the buffer for its frame to be parsed: none went through
\* another (Disabled) cipher.
C3_DecryptedUnderNewKey ==
    /\ \A i \in DOMAIN trace :
          trace[i].before.enc.kind = "AES" =>
              trace[i].frame.via = {trace[i].before.enc}
    /\ m_Encrypter.kind = "AES" =>
          \A i \in DOMAIN m_HandleBuffer.via : m_HandleBuffer.via[i] = m_Encrypter

Rank(state) ==
    CASE state = "Handshake" -> 0
      [] state = "Login" -> 1
      [] state = "Play" -> 2
      [] OTHER -> 3

\* C4: the protocol state only moves forward.  No step takes it from Play to
\* Login or Handshake, or from Login to Handshake, and Play is entered from
\* Login only.
C4_StateOnlyMovesForward ==
    [][ /\ Rank(m_ProtocolState') >= Rank(m_ProtocolState)
        /\ (m_ProtocolState' = "Play" /\ m_ProtocolState # "Play")
              => m_ProtocolState = "Login" ]_vars

\* C5: when a Disconnect message is handled a socket-state-change event is
\* emitted, onLogin(false) is emitted exactly when the state had not reached
\* Play, and the protocol state becomes Disconnected.
C5_DisconnectHandled ==
    \A i \in Handled("Disconnect") :
        /\ Len(OfType(trace[i].ev, "OnSocketStateChange")) = 1
        /\ Len(OfType(trace[i].ev, "OnLogin")) =
              (IF trace[i].before.state # "Play" THEN 1 ELSE 0)
        /\ \A j \in DOMAIN trace[i].ev :
              trace[i].ev[j].type = "OnLogin" => ~trace[i].ev[j].success
        /\ trace[i].after.state = "Disconnected"

\* C6: after a SetCompression(t) message is received, in Login or in Play, the
\* compression context is Active(t), every message sent before the next
\* SetCompression is compressed under t, and the context is never Disabled
\* again.
C6_SetCompressionTakesEffect ==
    \A i \in DOMAIN trace :
        trace[i].packet.kind = "SetCompression" =>
            /\ trace[i].after.comp = CompressionZ(trace[i].packet.arg)
            /\ \A j \in DOMAIN trace :
                  (j > i /\ \A m \in (i + 1)..j : trace[m].packet.kind # "SetCompression")
                  => \A n \in DOMAIN trace[j].out :
                        trace[j].out[n].data =
                           Encrypt(trace[j].out[n].enc,
                                   Compress(CompressionZ(trace[i].packet.arg),
                                            Serialize(trace[j].out[n].packet)))

\* C7: the encryption context is replaced once.  Once it is Active no step
\* changes it: neither its key material nor back to Disabled.
C7_EncryptionReplacedOnce ==
    [][ m_Encrypter.kind = "AES" => m_Encrypter' = m_Encrypter ]_vars

\* C8: when authenticate fails, joinServer is not called and the error reported
\* is "Failed to authenticate"; joinServer is called only after authenticate
\* succeeded.
C8_JoinOnlyAfterAuthenticate ==
    \A i \in Handled("EncryptionRequest") :
        LET auth == SelectSeq(trace[i].calls, LAMBDA x : x.op = "Authenticate")
            join == SelectSeq(trace[i].calls, LAMBDA x : x.op = "JoinServer")
            told == OfType(trace[i].ev, "OnAuthentication")
        IN  /\ join # <<>> => (auth # <<>> /\ auth[1].result = "true")
            /\ (auth # <<>> /\ auth[1].result = "false") =>
                  /\ join = <<>>
                  /\ \A j \in DOMAIN told : told[j].message = "Failed to authenticate"

\* C9: every EncryptionRequest handled sends exactly one EncryptionResponse and
\* leaves the encryption context Active with the negotiated secret, whatever
\* the identity service answered.
C9_ResponseAlwaysSent ==
    \A i \in Handled("EncryptionRequest") :
        /\ Len(OfKind(trace[i].out, "EncryptionResponse")) = 1
        /\ Len(trace[i].out) = 1
        /\ trace[i].after.enc = EncryptionStrategyAES(trace[i].packet.arg)

\* an EncryptionRequest was handled while the identity service refused or threw
C9_Witness ==
    \E i \in Handled("EncryptionRequest") :
        /\ trace[i].calls[1].result # "true"
        /\ trace[i].calls[2].result = "throw"
        /\ Len(trace[i].out) = 1

CompleteFramePending(buffer) ==
    LET length == ReadVarInt(buffer.data, buffer.readOffset)
    IN  length.ok /\ Len(buffer.data) - length.next >= length.value

C12_KeepAliveEchoed ==
    \A i \in Handled("KeepAlive") :
        /\ trace[i].before.state = "Play"
        /\ Len(trace[i].out) = 1
        /\ trace[i].out[1].packet = [kind |-> "KeepAlive", arg |-> trace[i].packet.arg]
        /\ trace[i].after = trace[i].before

\* a KeepAlive was handled while more bytes waited behind it in the buffer
C12_Witness ==
    \E i \in Handled("KeepAlive") :
        /\ trace[i].before.rest # <<>>
        /\ Len(trace[i].out) = 1

\* C13: login(username, credential) sends exactly two messages, Handshake
\* first and LoginStart second, keeps the credentials, which are the ones a
\* later authenticate call is made with, and leaves the protocol state Login;
\* a LoginSuccess received in Login emits onLogin(true) exactly once and sets
\* the state to Play.
C13_LoginThenSuccess ==
    /\ lastOp.op = "login" =>
          /\ Len(sent) = 2
          /\ sent[1].packet = [kind |-> "Handshake", arg |-> ProtocolVersion]
          /\ sent[2].packet = [kind |-> "LoginStart", arg |-> m_Username]
          /\ m_Username \in Users
          /\ m_Password \in Passwords
          /\ m_ProtocolState = "Login"
    /\ \A i \in Handled("EncryptionRequest") :
          \A j \in DOMAIN trace[i].calls :
              trace[i].calls[j].op = "Authenticate" =>
                  /\ trace[i].calls[j].user = m_Username
                  /\ trace[i].calls[j].pass = m_Password
                  /\ m_Username \in Users
                  /\ m_Password \in Passwords
    /\ \A i \in DOMAIN trace :
          (trace[i].packet.kind = "LoginSuccess" /\ trace[i].before.state = "Login") =>
              /\ trace[i].handled
              /\ trace[i].ev = <<OnLogin(TRUE)>>
              /\ trace[i].after.state = "Play"

\* after a login, an EncryptionRequest and then a LoginSuccess were handled in
\* one poll cycle
C13_Witness ==
    /\ m_ProtocolState = "Play"
    /\ m_Username \in Users
    /\ \E i \in Handled("EncryptionRequest"), j \in Handled("LoginSuccess") :
          /\ i < j
          /\ trace[i].calls[1].user = m_Username

\* C14: a poll() in which the transport reports a status other than connected
\* emits one socket-state-change event carrying that status and does nothing
\* else: the pending buffer, the protocol state and both codec contexts are
\* what they were, no frame is parsed, no packet dispatched, nothing sent.
C14_NotConnectedPollOnlyNotifies ==
    [][ (lastOp'.op = "poll" /\ m_SocketStatus # "Connected") =>
            /\ events' = <<OnSocketStateChange(m_SocketStatus)>>
            /\ m_SocketStatus' = m_SocketStatus
            /\ m_HandleBuffer' = m_HandleBuffer
            /\ lastOp'.frames = <<>>
            /\ trace' = <<>>
            /\ sent' = <<>>
            /\ calls' = <<>>
            /\ m_ProtocolState' = m_ProtocolState
            /\ m_Encrypter' = m_Encrypter
            /\ m_Compressor' = m_Compressor ]_vars

\* a poll found the socket disconnected while bytes were still in flight and
\* told the listeners
C14_Witness ==
    /\ lastOp.op = "poll"
    /\ lastOp.stop = "status"
    /\ wire # <<>>
    /\ events = <<OnSocketStateChange("Disconnected")>>

\* C15: connect(host, port) with a host that is not a numeric address tries the
\* resolved candidate addresses in list order and stops at the first that
\* connects; it returns true exactly when some candidate connects (false for
\* an empty list), and emits exactly one socket-state-change event when it
\* returns true and none when it returns false.
C15_ConnectTriesInOrder ==
    (lastOp.op = "connect" /\ ~lastOp.numeric) =>
        /\ Len(lastOp.tried) <= Len(lastOp.addrs)
        /\ lastOp.tried = SubSeq(lastOp.addrs, 1, Len(lastOp.tried))
        /\ \A i \in 1..(Len(lastOp.tried) - 1) : ~lastOp.tried[i]
        /\ (lastOp.tried = <<>> \/ ~lastOp.tried[Len(lastOp.tried)])
              => lastOp.tried = lastOp.addrs
        /\ lastOp.ret <=> \E i \in DOMAIN lastOp.addrs : lastOp.addrs[i]
        /\ lastOp.ret => m_SocketStatus = "Connected"
        /\ events = IF lastOp.ret THEN <<OnSocketStateChange("Connected")>> ELSE <<>>

\* the first candidate address failed and the second connected
C15_Witness ==
    /\ lastOp.op = "connect"
    /\ ~lastOp.numeric
    /\ lastOp.addrs = <<FALSE, TRUE>>
    /\ lastOp.tried = <<FALSE, TRUE>>
    /\ lastOp.ret

\* C16: Disconnected is terminal.  Once a Disconnect message has been handled,
\* no packet parsed after it in the same poll cycle reaches a handler or makes
\* the Connection send a message, and no later poll cycle dispatches a packet.
C16_DisconnectedIsTerminal ==
    \A i \in Handled("Disconnect") :
        \A j \in DOMAIN trace :
            j > i => (~trace[j].handled /\ trace[j].out = <<>>)

\* the bytes SendPacket hands to the socket for a packet under given contexts:
\* compressed first, encrypted second
OnWire(o) == Encrypt(o.enc, Compress(o.comp, Serialize(o.packet)))

\* C17: outbound cipher switch.  The EncryptionResponse is sent through the
\* encryption context in effect before the swap, which is Disabled; when the
\* handler returns the context is Active with the new key, and every message
\* sent after that is encrypted under the new key; every message sent is
\* compressed first and encrypted second, under the contexts current at its
\* send.
C17_OutboundCipherSwitch ==
    /\ \A i \in Handled("EncryptionRequest") :
          /\ Len(trace[i].out) = 1
          /\ trace[i].out[1].packet.kind = "EncryptionResponse"
          /\ trace[i].out[1].enc = trace[i].before.enc
          /\ trace[i].out[1].enc = EncryptionStrategyNone
          /\ trace[i].after.enc = EncryptionStrategyAES(trace[i].packet.arg)
    /\ \A i \in DOMAIN trace : \A n \in DOMAIN trace[i].out :
          /\ trace[i].out[n].data = OnWire(trace[i].out[n])
          /\ trace[i].out[n].comp = trace[i].before.comp
          /\ trace[i].packet.kind # "EncryptionRequest" =>
                trace[i].out[n].enc = trace[i].after.enc
    /\ \A n \in DOMAIN sent :
          /\ sent[n].data = OnWire(sent[n])
          /\ lastOp.op \in {"send", "login"} =>
                (sent[n].enc = m_Encrypter /\ sent[n].comp = m_Compressor)

Dropped ==
    {n \in DOMAIN lastOp.frames :
        /\ \A i \in DOMAIN trace : trace[i].frame.start # lastOp.frames[n].start
        /\ ~(lastOp.stop = "factory" /\ n = Len(lastOp.frames))}

\* C19: handlers are gated by the protocol state.  The KeepAlive and
\* PlayerPositionAndLook handlers run only in Play, the EncryptionRequest,
\* LoginSuccess and SetCompression handlers only in Login, and a packet that
\* reaches no handler changes nothing and sends nothing.  A frame whose
\* identifier is not valid for the current state is consumed whole and the
\* loop goes on with the frames after it.
C19_HandlersGatedByState ==
    /\ \A i \in DOMAIN trace :
          /\ (trace[i].handled
                /\ trace[i].packet.kind \in {"KeepAlive", "PlayerPositionAndLook"})
                => trace[i].before.state = "Play"
          /\ (trace[i].handled
                /\ trace[i].packet.kind \in
                      {"EncryptionRequest", "LoginSuccess", "SetCompression"})
                => trace[i].before.state = "Login"
          /\ ~trace[i].handled =>
                /\ trace[i].after = trace[i].before
                /\ trace[i].out = <<>> /\ trace[i].ev = <<>> /\ trace[i].calls = <<>>
    /\ (lastOp.op = "poll" /\ ~faulted) =>
          \A n \in Dropped :
              /\ lastOp.offset > lastOp.frames[n].start + lastOp.frames[n].length
              /\ lastOp.stop = "finished" \/ lastOp.start > lastOp.frames[n].start

\* a poll cycle dropped a frame whose identifier the state does not know and
\* then handled the frame behind it
C19_Witness ==
    /\ lastOp.op = "poll"
    /\ \E n \in Dropped : \E i \in DOMAIN trace :
          /\ trace[i].handled
          /\ trace[i].frame.start > lastOp.frames[n].start

====
